---- MODULE Spec2Model ----
(***************************************************************************)
(* Task flows of gitfourchette (tasks/branchtasks.py, tasks/stashtasks.py) *)
(* run by the RepoTask flow executor.  A flow is a generator: each step    *)
(* runs the code up to the next yield, which leaves a StepRequest (req)    *)
(* for the executor; the executor resolves it and resumes the flow.        *)
(***************************************************************************)
EXTENDS Integers, Sequences, FiniteSets, TLC

VARIABLES
    repo,       \* live repository state (refs, HEAD, index, stashes)
    stack,      \* task stack: root task first, innermost subtask last
    loc,        \* arguments and local variables of the running flows
    ctx,        \* thread context the flow is in: "ui" or "worker"
    req,        \* pending StepRequest of the flow
    res,        \* last StepResult handed back to the flow
    outcome,    \* "idle", "running", "completed", "aborted", "failed", "prereq"
    abortMsg,   \* TRUE when the AbortSignal carries a message
    err,        \* kind of the unhandled error, "" when none
    result,     \* EffectSet handed back to the UI at the end
    log,        \* what the flow did, in order (calls, prompts, processes)
    done,       \* finished tasks, innermost first
    hook        \* what the executor / onError hook presented after the end

vars == <<repo, stack, loc, ctx, req, res, outcome, abortMsg, err, result, log, done, hook>>

----------------------------------------------------------------------------
\* Bounds of the model

MaxStashes == 1
MaxExitCode == 1

----------------------------------------------------------------------------
\* Values

TaskEffects == {"Refs", "Head", "Workdir", "Upstreams"}
TaskPrereqs == {"NoConflicts", "NoUnborn", "NoDetached", "NoStagedChanges"}

\* Branch names are paths: a sequence of folder components
M == <<"m">>
B == <<"b">>
AB == <<"a", "b">>
AAB == <<"a", "a", "b">>
N == <<"n">>
NoName == <<>>

Layout1 == (M :> "c1") @@ (AB :> "c1") @@ (AAB :> "c2")

Commits == {"c0", "c1", "c2"}
RemoteBranch == "origin/m"
RemoteTarget == "c2"

ExitCodes == 0..MaxExitCode

NoReq == [kind |-> "none", arg |-> "", autoFail |-> FALSE, canCancel |-> FALSE, action |-> FALSE]

Request(kind, arg) == [NoReq EXCEPT !.kind = kind, !.arg = arg]

Terminal == {"completed", "aborted", "failed", "prereq"}

----------------------------------------------------------------------------
\* Prerequisites

Prereqs(task) ==
    CASE task = "SwitchBranch" -> {"NoConflicts"}
      [] task = "NewBranchFromHead" -> {"NoUnborn"}
      [] task = "ResetHead" -> {"NoUnborn", "NoDetached"}
      [] task = "NewStash" -> {"NoConflicts", "NoUnborn"}
      [] task = "ApplyStash" -> {"NoConflicts", "NoStagedChanges"}
      [] OTHER -> {}

PrereqHolds(p, r) ==
    CASE p = "NoConflicts" -> ~r.conflicts
      [] p = "NoUnborn" -> r.headKind # "unborn"
      [] p = "NoDetached" -> r.headKind # "detached"
      [] p = "NoStagedChanges" -> ~r.staged

CheckPrereqs(ps, r) == \A p \in ps : PrereqHolds(p, r)

----------------------------------------------------------------------------
\* Frames, events

Frame(task, pc) == [task |-> task, pc |-> pc, effects |-> {}, own |-> {}, status |-> ""]

Top == stack[Len(stack)]
WithTop(f) == [stack EXCEPT ![Len(stack)] = f]

AddEffects_Assign(f, S) == [f EXCEPT !.effects = S, !.own = S]

AddEffects(f, S) == [f EXCEPT !.effects = @ \cup S, !.own = @ \cup S]
Goto(f, pc) == [f EXCEPT !.pc = pc]
PostStatus(f, s) == [f EXCEPT !.status = s]

\* An event of the log: kind, flow whose code did it, context, the task's
\* effects at that moment, a detail, and whether the declared prereqs of
\* the flow held (for "enter")
Event(k, t, a, f) ==
    [k |-> k, t |-> t, c |-> ctx, e |-> f.effects, a |-> a, ok |-> TRUE, x |-> 0, n |-> <<>>]

Named(ev, n) == [ev EXCEPT !.n = n]

AccEffects_Own(stk, i) == stk[i].effects

AccEffects(stk, i) == UNION {stk[j].effects : j \in i..Len(stk)}

Unwound(stk, how) ==
    [i \in 1..Len(stk) |->
        LET j == Len(stk) + 1 - i IN
        [task |-> stk[j].task, effects |-> AccEffects(stk, j), own |-> stk[j].own,
         status |-> stk[j].status, how |-> how, depth |-> j]]

Running(labels) ==
    /\ outcome = "running"
    /\ req = NoReq
    /\ stack # <<>>
    /\ Top.pc \in labels

----------------------------------------------------------------------------
\* Repository

IsPrefix(p, n) == Len(p) < Len(n) /\ SubSeq(n, 1, Len(p)) = p

LocalBranches(r) == DOMAIN r.branches

FolderBranches(r, folder) == {n \in LocalBranches(r) : IsPrefix(folder, n)}

Folders(r) == UNION {{SubSeq(n, 1, k) : k \in 1..(Len(n) - 1)} : n \in LocalBranches(r)}

IsCheckedOut_Never(r, n) == FALSE

IsCheckedOut(r, n) == r.headKind = "branch" /\ r.head = n

HeadChoices ==
    { [headKind |-> "branch", head |-> M, headCommit |-> "c1", dangerous |-> FALSE],
      [headKind |-> "branch", head |-> AB, headCommit |-> "c1", dangerous |-> FALSE],
      [headKind |-> "detached", head |-> NoName, headCommit |-> "c1", dangerous |-> FALSE],
      [headKind |-> "detached", head |-> NoName, headCommit |-> "c0", dangerous |-> TRUE],
      [headKind |-> "unborn", head |-> <<"u">>, headCommit |-> "none", dangerous |-> FALSE] }

StashIds == <<"s1", "s2", "s3">>

Repos ==
    { [branches |-> lay, headKind |-> h.headKind, head |-> h.head, headCommit |-> h.headCommit,
       dangerous |-> h.dangerous, upstreams |-> [n \in DOMAIN lay |-> IF n = M THEN up ELSE ""], conflicts |-> c, staged |-> s, unstaged |-> u,
       stashes |-> SubSeq(StashIds, 1, k)] :
         lay \in {Layout1}, h \in HeadChoices, up \in {"", RemoteBranch},
         c \in BOOLEAN, s \in BOOLEAN, u \in BOOLEAN, k \in 0..MaxStashes }

\* an unborn repository has no commit: nothing to conflict with, nothing stashed
Plausible(r) == r.headKind = "unborn" => (~r.conflicts /\ r.stashes = <<>>)

\* upstream of a local branch, "" when it tracks none
Upstream(r, n) == r.upstreams[n]

RemoveAt(s, i) == SubSeq(s, 1, i - 1) \o SubSeq(s, i + 1, Len(s))

IndexOf(s, x) == IF \E i \in 1..Len(s) : s[i] = x
                 THEN CHOOSE i \in 1..Len(s) : s[i] = x
                 ELSE 0

----------------------------------------------------------------------------
\* Locals of the flows

DefaultLoc ==
    [op |-> "", name |-> NoName, newName |-> NoName,
     sbBranch |-> NoName, sbAsk |-> TRUE, sbRefresh |-> FALSE,
     folder |-> NoName, newFolder |-> NoName, fb |-> <<>>, i |-> 1,
     tip |-> "none", nbName |-> NoName, suggestUpstream |-> "", checkUpstream |-> FALSE,
     switchTo |-> FALSE, trackUpstream |-> "",
     refIsRemote |-> FALSE, remote |-> "", onto |-> "none",
     analysis |-> {}, upToDate |-> FALSE,
     themIsRemote |-> FALSE, target |-> "none", silentFastForward |-> FALSE,
     wantMergeCommit |-> TRUE,
     stashAndReapply |-> FALSE, anyStagedFiles |-> FALSE, anyConflicts |-> FALSE,
     stash |-> "", tickDelete |-> TRUE, silent |-> FALSE, deleteAfterApply |-> FALSE,
     stashIndex |-> 0, exitCode |-> 0, keepIntact |-> FALSE]

----------------------------------------------------------------------------
\* The external git process: what a command leaves in the repository.
\* conf: whether a failed merge / stash application left conflicts in the index

MoveHead(r, commit) ==
    [r EXCEPT !.headCommit = commit,
              !.branches = IF r.headKind = "branch" /\ r.head \in DOMAIN r.branches
                           THEN [@ EXCEPT ![r.head] = commit] ELSE @]

GitEffect(cmd, code, conf, r, l) ==
    CASE cmd = "checkout" ->
            IF code = 0
            THEN [r EXCEPT !.headKind = "branch", !.head = l.sbBranch,
                           !.headCommit = r.branches[l.sbBranch]]
            ELSE r
      [] cmd = "reset" ->
            IF code = 0 THEN MoveHead(r, l.onto) ELSE r
      [] cmd = "merge --no-ff" ->
            IF code = 0 THEN [r EXCEPT !.staged = TRUE]
            ELSE [r EXCEPT !.conflicts = conf]
      [] cmd = "merge --ff-only" ->
            IF code = 0 THEN MoveHead(r, l.target)
            ELSE [r EXCEPT !.conflicts = conf]
      [] cmd = "push" ->
            IF code = 0 THEN [r EXCEPT !.branches[l.name] = l.target] ELSE r
      [] cmd \in {"stash pop", "stash apply"} ->
            IF code = 0
            THEN [r EXCEPT !.unstaged = TRUE,
                           !.stashes = IF cmd = "stash pop" /\ l.stashIndex > 0
                                       THEN RemoveAt(@, l.stashIndex) ELSE @]
            ELSE [r EXCEPT !.conflicts = conf]
      [] cmd = "stash drop" ->
            IF code = 0 /\ l.stashIndex > 0
            THEN [r EXCEPT !.stashes = RemoveAt(@, l.stashIndex)]
            ELSE r
      [] OTHER -> r

----------------------------------------------------------------------------
\* Executor: start, end, and resolution of the flow's requests

Entry(task) ==
    CASE task = "SwitchBranch" -> "sb_start"
      [] task = "RenameBranch" -> "rb_start"
      [] task = "RenameBranchFolder" -> "rf_start"
      [] task = "DeleteBranch" -> "db_start"
      [] task = "DeleteBranchFolder" -> "df_start"
      [] task = "NewBranchFromCommit" -> "nb_start"
      [] task = "NewBranchFromHead" -> "nh_start"
      [] task = "NewBranchFromRef" -> "nr_start"
      [] task = "EditUpstreamBranch" -> "eu_start"
      [] task = "ResetHead" -> "rh_start"
      [] task = "RecallCommit" -> "rc_start"
      [] task = "FastForwardBranch" -> "ff_start"
      [] task = "MergeBranch" -> "mb_start"
      [] task = "NewStash" -> "ns_start"
      [] task = "ApplyStash" -> "as_start"
      [] task = "DropStash" -> "ds_start"
      [] OTHER -> "end"

\* the flow ends: AbortTask, an unhandled error, or a violated prereq.
\* The task stack unwinds; what the tasks accumulated is kept.
Terminate(stk, how, msg, e) ==
    /\ stack' = <<>>
    /\ outcome' = how
    /\ abortMsg' = msg
    /\ err' = e
    /\ result' = AccEffects(stk, 1)
    /\ done' = done \o Unwound(stk, how)
    /\ req' = NoReq

AbortTask(stk, msg) == Terminate(stk, "aborted", msg, "")
Raise(stk, e) == Terminate(stk, "failed", FALSE, e)

\* the flow goes on: f is the top frame after the step, r its request
Continue(f, r) ==
    /\ stack' = WithTop(f)
    /\ req' = r
    /\ UNCHANGED <<outcome, abortMsg, err, result, done>>

Enter(task) == [Event("enter", task, "", Frame(task, "")) EXCEPT
                    !.ok = CheckPrereqs(Prereqs(task), repo)]

Invocations(r) ==
    {[DefaultLoc EXCEPT !.op = "SwitchBranch", !.sbBranch = n] : n \in LocalBranches(r)}
    \cup {[DefaultLoc EXCEPT !.op = "RenameBranch", !.name = n] : n \in LocalBranches(r)}
    \cup {[DefaultLoc EXCEPT !.op = "RenameBranchFolder", !.folder = f] : f \in Folders(r)}
    \cup {[DefaultLoc EXCEPT !.op = "DeleteBranch", !.name = n] : n \in LocalBranches(r)}
    \cup {[DefaultLoc EXCEPT !.op = "DeleteBranchFolder", !.folder = f] : f \in Folders(r)}
    \cup {[DefaultLoc EXCEPT !.op = "NewBranchFromCommit", !.tip = c] :
                c \in {r.headCommit, RemoteTarget} \ {"none"}}
    \cup {[DefaultLoc EXCEPT !.op = "NewBranchFromHead"]}
    \cup {[DefaultLoc EXCEPT !.op = "NewBranchFromRef", !.refIsRemote = b, !.name = M] :
                b \in BOOLEAN}
    \cup {[DefaultLoc EXCEPT !.op = "EditUpstreamBranch", !.name = M, !.remote = u] :
                u \in {"", RemoteBranch}}
    \cup {[DefaultLoc EXCEPT !.op = "ResetHead", !.onto = RemoteTarget]}
    \cup {[DefaultLoc EXCEPT !.op = "RecallCommit"]}
    \cup {[DefaultLoc EXCEPT !.op = "FastForwardBranch", !.name = n] : n \in {NoName, M, AB}}
    \cup {[DefaultLoc EXCEPT !.op = "MergeBranch", !.themIsRemote = TRUE, !.target = RemoteTarget,
                             !.silentFastForward = b] : b \in BOOLEAN}
    \cup {[DefaultLoc EXCEPT !.op = "NewStash"]}
    \cup {[DefaultLoc EXCEPT !.op = "ApplyStash", !.stash = r.stashes[k], !.tickDelete = b] :
                k \in DOMAIN r.stashes, b \in BOOLEAN}
    \cup {[DefaultLoc EXCEPT !.op = "DropStash", !.stash = r.stashes[k]] : k \in DOMAIN r.stashes}

Init ==
    /\ repo \in {r \in Repos : Plausible(r)}
    /\ stack = <<>>
    /\ loc = DefaultLoc
    /\ ctx = "ui"
    /\ req = NoReq
    /\ res = ""
    /\ outcome = "idle"
    /\ abortMsg = FALSE
    /\ err = ""
    /\ result = {}
    /\ log = <<>>
    /\ done = <<>>
    /\ hook = "none"

\* RepoTask.invoke: the prereq gate, then the flow starts on the UI thread
Invoke ==
    /\ outcome = "idle"
    /\ \E inv \in Invocations(repo) :
        /\ loc' = inv
        /\ IF CheckPrereqs(Prereqs(inv.op), repo)
           THEN /\ stack' = <<Frame(inv.op, Entry(inv.op))>>
                /\ outcome' = "running"
                /\ log' = <<Enter(inv.op)>>
                /\ UNCHANGED <<err>>
           ELSE /\ outcome' = "prereq"
                /\ err' = "PrereqViolation"
                /\ UNCHANGED <<stack, log>>
    /\ UNCHANGED <<repo, ctx, req, res, abortMsg, result, done, hook>>

\* flowEnterWorkerThread / flowEnterUiThread granted
SwitchContext ==
    /\ outcome = "running"
    /\ req.kind \in {"worker", "ui"}
    /\ ctx' = req.kind
    /\ req' = NoReq
    /\ UNCHANGED <<repo, stack, loc, res, outcome, abortMsg, err, result, log, done, hook>>

Choices_None(r) == {}

Choices(r) == {"ok"} \cup (IF r.canCancel THEN {"cancel"} ELSE {})
                     \cup (IF r.action THEN {"action"} ELSE {})

\* flowConfirm / flowDialog resolved by the user; a rejected dialog aborts the task
\* without a message
Answer ==
    /\ outcome = "running"
    /\ req.kind = "prompt"
    /\ \E choice \in Choices(req) :
        /\ log' = Append(log, Event("answer", Top.task, choice, Top))
        /\ IF choice = "cancel"
           THEN /\ AbortTask(stack, FALSE)
                /\ UNCHANGED res
           ELSE /\ res' = choice
                /\ req' = NoReq
                /\ UNCHANGED <<stack, outcome, abortMsg, err, result, done>>
    /\ UNCHANGED <<repo, loc, ctx, hook>>

\* the autoFail argument of each flowCallGit call: False where the flow inspects
\* the exit code itself, the default (True) elsewhere
AutoFail_Never(cmd) == FALSE

AutoFail(cmd) == cmd \notin {"merge --ff-only", "merge --no-ff", "push", "stash pop", "stash apply"}

CallGit(cmd) == [Request("process", cmd) EXCEPT !.autoFail = AutoFail(cmd)]

\* flowCallGit: the process exits; with autoFail a non-zero exit code is an error
ProcessExit ==
    /\ outcome = "running"
    /\ req.kind = "process"
    /\ \E code \in ExitCodes, conf \in BOOLEAN :
        /\ repo' = GitEffect(req.arg, code, conf, repo, loc)
        /\ log' = Append(log, [Event("exit", Top.task, req.arg, Top) EXCEPT !.x = code])
        /\ loc' = [loc EXCEPT !.exitCode = code]
        /\ IF req.autoFail /\ code # 0
           THEN Raise(stack, "ProcessFailure")
           ELSE /\ req' = NoReq
                /\ UNCHANGED <<stack, outcome, abortMsg, err, result, done>>
    /\ UNCHANGED <<ctx, res, hook>>

\* flowSubtask: the subtask's prereqs, then its flow
StartSubtask ==
    /\ outcome = "running"
    /\ req.kind = "subtask"
    /\ IF CheckPrereqs(Prereqs(req.arg), repo)
       THEN /\ stack' = Append(stack, Frame(req.arg, Entry(req.arg)))
            /\ log' = Append(log, Enter(req.arg))
            /\ req' = NoReq
            /\ UNCHANGED <<outcome, abortMsg, err, result, done>>
       ELSE /\ Raise(stack, "PrereqViolation")
            /\ UNCHANGED log
    /\ UNCHANGED <<repo, loc, ctx, res, hook>>

\* a flow returns: a subtask hands its effects to its parent, the root task
\* hands them to the UI
Finished(f, how, depth) ==
    [task |-> f.task, effects |-> f.effects, own |-> f.own, status |-> f.status,
     how |-> how, depth |-> depth]

Return ==
    /\ Running({"end"})
    /\ done' = Append(done, Finished(Top, "completed", Len(stack)))
    /\ IF Len(stack) > 1
       THEN /\ stack' = [SubSeq(stack, 1, Len(stack) - 1) EXCEPT
                            ![Len(stack) - 1].effects = @ \cup Top.effects]
            /\ UNCHANGED <<outcome, result>>
       ELSE /\ stack' = <<>>
            /\ outcome' = "completed"
            /\ result' = Top.effects
    /\ UNCHANGED <<repo, loc, ctx, req, res, abortMsg, err, log, hook>>

----------------------------------------------------------------------------
\* SwitchBranch

SwitchBranchEffects == {"Refs", "Head"}

DetachedWarningNeeded_Never(r, newBranch) == FALSE

\* dangerouslyDetachedHead() and branchObj.target != headId
DetachedWarningNeeded(r, newBranch) == r.dangerous /\ r.branches[newBranch] # r.headCommit

SwitchBranchFlow ==
    \/ /\ Running({"sb_start"})
       /\ IF IsCheckedOut(repo, loc.sbBranch)
          THEN /\ AbortTask(stack, TRUE)
               /\ UNCHANGED log
          ELSE IF loc.sbAsk
          THEN /\ log' = Append(log, Event("prompt", "SwitchBranch", "switch", Top))
               /\ Continue(Goto(Top, "sb_detached"), [Request("prompt", "switch") EXCEPT !.canCancel = TRUE])
          ELSE /\ Continue(Goto(Top, "sb_detached"), NoReq)
               /\ UNCHANGED log
       /\ UNCHANGED <<repo, loc, ctx, res, hook>>
    \/ /\ Running({"sb_detached"})
       /\ IF DetachedWarningNeeded(repo, loc.sbBranch)
          THEN IF loc.sbRefresh
               THEN Continue(Goto(Top, "sb_warn"), Request("subtask", "RefreshRepo"))
               ELSE Continue(Goto(Top, "sb_warn"), NoReq)
          ELSE Continue(Goto(Top, "sb_checkout"), NoReq)
       /\ UNCHANGED <<repo, loc, ctx, res, log, hook>>
    \/ /\ Running({"sb_warn"})
       /\ log' = Append(log, Event("prompt", "SwitchBranch", "detached", Top))
       /\ Continue(Goto(Top, "sb_checkout"), [Request("prompt", "detached") EXCEPT !.canCancel = TRUE])
       /\ UNCHANGED <<repo, loc, ctx, res, hook>>
    \/ /\ Running({"sb_checkout"})
       /\ LET f == AddEffects(Top, SwitchBranchEffects) IN
          /\ log' = Append(log, Event("process", "SwitchBranch", "checkout", f))
          /\ Continue(Goto(f, "sb_done"), CallGit("checkout"))
       /\ UNCHANGED <<repo, loc, ctx, res, hook>>
    \/ /\ Running({"sb_done"})
       /\ Continue(PostStatus(Goto(Top, "end"), "Switched to branch"), NoReq)
       /\ UNCHANGED <<repo, loc, ctx, res, log, hook>>

----------------------------------------------------------------------------
\* Backend writes on local branches (porcelain): the new repository, or an error

Without(fn, n) == [m \in DOMAIN fn \ {n} |-> fn[m]]

CanRename(r, old, new) == old \in LocalBranches(r) /\ new \notin LocalBranches(r)

RenameLocalBranch(r, old, new) ==
    [r EXCEPT !.branches = Without(@, old) @@ (new :> r.branches[old]),
              !.upstreams = Without(@, old) @@ (new :> r.upstreams[old]),
              !.head = IF IsCheckedOut(r, old) THEN new ELSE @]

CanDelete(r, n) == n \in LocalBranches(r) /\ ~IsCheckedOut(r, n)

DeleteLocalBranch_Keep(r, n) == r

DeleteLocalBranch(r, n) ==
    [r EXCEPT !.branches = Without(@, n), !.upstreams = Without(@, n)]

CanCreate(r, n) == n \notin LocalBranches(r)

CreateBranchFromCommit(r, n, commit) ==
    [r EXCEPT !.branches = @ @@ (n :> commit), !.upstreams = @ @@ (n :> "")]

EditUpstream(r, n, remote) == [r EXCEPT !.upstreams[n] = remote]

CreateStash(r, id) == [r EXCEPT !.stashes = <<id>> \o @]

RestoreFilesFromHead(r) == [r EXCEPT !.unstaged = FALSE, !.staged = FALSE]

\* the orders in which listall_branches may list a set of branches
Listings(S) == {q \in [1..Cardinality(S) -> S] : \A n \in S : \E k \in DOMAIN q : q[k] = n}

----------------------------------------------------------------------------
\* RenameBranch

\* names the dialog of RenameBranch accepts: nameValidationMessage rejects the
\* names of the other local branches
IsNoOp_Never(new, old) == FALSE

\* "Bail if identical": the value entered is the current one
IsNoOp(new, old) == new = old

RenameInputs(r, old) == ({old, N} \cup LocalBranches(r)) \ (LocalBranches(r) \ {old})

RenameBranchFlow ==
    \/ /\ Running({"rb_start"})
       /\ log' = Append(log, Event("prompt", "RenameBranch", "dialog", Top))
       /\ Continue(Goto(Top, "rb_input"), [Request("prompt", "dialog") EXCEPT !.canCancel = TRUE])
       /\ UNCHANGED <<repo, loc, ctx, res, hook>>
    \/ /\ Running({"rb_input"})
       /\ \E newBranchName \in RenameInputs(repo, loc.name) :
            /\ loc' = [loc EXCEPT !.newName = newBranchName]
            /\ IF IsNoOp(newBranchName, loc.name)
               THEN AbortTask(stack, FALSE)
               ELSE Continue(Goto(Top, "rb_rename"), Request("worker", ""))
       /\ UNCHANGED <<repo, ctx, res, log, hook>>
    \/ /\ Running({"rb_rename"})
       /\ LET f == AddEffects(Top, {"Refs"}) IN
          /\ log' = Append(log, Named(Event("write", "RenameBranch", "rename_local_branch", f), loc.name))
          /\ IF CanRename(repo, loc.name, loc.newName)
             THEN /\ repo' = RenameLocalBranch(repo, loc.name, loc.newName)
                  /\ Continue(PostStatus(Goto(f, "end"), "Branch renamed"), NoReq)
             ELSE /\ Raise(WithTop(f), "AlreadyExistsError")
                  /\ UNCHANGED repo
       /\ UNCHANGED <<loc, ctx, res, hook>>

----------------------------------------------------------------------------
\* RenameBranchFolder

transformBranchName(branchName, oldFolderName, newFolderName) ==
    newFolderName \o SubSeq(branchName, Len(oldFolderName) + 1, Len(branchName))

\* validate: no renamed branch may clash with a branch outside the folder
validate(r, oldFolderName, newFolderName) ==
    \A b \in FolderBranches(r, oldFolderName) :
        transformBranchName(b, oldFolderName, newFolderName)
            \notin (LocalBranches(r) \ FolderBranches(r, oldFolderName))

FolderInputs == {<<>>, <<"a">>, <<"a", "a">>, <<"z">>}

RenameBranchFolderFlow ==
    \/ /\ Running({"rf_start"})
       /\ \E listing \in Listings(FolderBranches(repo, loc.folder)) :
            loc' = [loc EXCEPT !.fb = listing, !.i = 1]
       /\ log' = Append(log, Event("prompt", "RenameBranchFolder", "dialog", Top))
       /\ Continue(Goto(Top, "rf_input"), [Request("prompt", "dialog") EXCEPT !.canCancel = TRUE])
       /\ UNCHANGED <<repo, ctx, res, hook>>
    \/ /\ Running({"rf_input"})
       /\ \E newFolderName \in {x \in FolderInputs : validate(repo, loc.folder, x)} :
            /\ loc' = [loc EXCEPT !.newFolder = newFolderName]
            /\ IF IsNoOp(newFolderName, loc.folder)
               THEN AbortTask(stack, FALSE)
               ELSE Continue(Goto(Top, "rf_worker"), Request("worker", ""))
       /\ UNCHANGED <<repo, ctx, res, log, hook>>
    \/ /\ Running({"rf_worker"})
       /\ Continue(Goto(AddEffects(Top, {"Refs"}), "rf_loop"), NoReq)
       /\ UNCHANGED <<repo, loc, ctx, res, log, hook>>
    \/ /\ Running({"rf_loop"})
       /\ IF loc.i > Len(loc.fb)
          THEN /\ Continue(PostStatus(Goto(Top, "end"), "Branch folder renamed"), NoReq)
               /\ UNCHANGED <<repo, loc, log>>
          ELSE LET old == loc.fb[loc.i]
                   new == transformBranchName(old, loc.folder, loc.newFolder) IN
               /\ log' = Append(log, Named(Event("write", "RenameBranchFolder", "rename_local_branch", Top), new))
               /\ IF CanRename(repo, old, new)
                  THEN /\ repo' = RenameLocalBranch(repo, old, new)
                       /\ loc' = [loc EXCEPT !.i = @ + 1]
                       /\ Continue(Top, NoReq)
                  ELSE /\ Raise(stack, "AlreadyExistsError")
                       /\ UNCHANGED <<repo, loc>>
       /\ UNCHANGED <<ctx, res, hook>>

----------------------------------------------------------------------------
\* DeleteBranch

DeleteBranchFlow ==
    \/ /\ Running({"db_start"})
       /\ IF loc.name = repo.head
          THEN /\ AbortTask(stack, TRUE)
               /\ UNCHANGED log
          ELSE /\ log' = Append(log, Event("prompt", "DeleteBranch", "confirm", Top))
               /\ Continue(Goto(Top, "db_confirmed"), [Request("prompt", "confirm") EXCEPT !.canCancel = TRUE])
       /\ UNCHANGED <<repo, loc, ctx, res, hook>>
    \/ /\ Running({"db_confirmed"})
       /\ Continue(Goto(Top, "db_delete"), Request("worker", ""))
       /\ UNCHANGED <<repo, loc, ctx, res, log, hook>>
    \/ /\ Running({"db_delete"})
       /\ LET f == AddEffects(Top, {"Refs"}) IN
          /\ log' = Append(log, Named(Event("write", "DeleteBranch", "delete_local_branch", f), loc.name))
          /\ IF CanDelete(repo, loc.name)
             THEN /\ repo' = DeleteLocalBranch(repo, loc.name)
                  /\ loc' = [loc EXCEPT !.target = repo.branches[loc.name]]
                  /\ Continue(PostStatus(Goto(f, "end"), "Branch deleted"), NoReq)
             ELSE /\ Raise(WithTop(f), "GitError")
                  /\ UNCHANGED <<repo, loc>>
       /\ UNCHANGED <<ctx, res, hook>>

----------------------------------------------------------------------------
\* DeleteBranchFolder

CurrentBranchInFolder_Never(r, folder) == FALSE

\* currentBranch.startswith(folderNameSlash)
CurrentBranchInFolder(r, folder) == IsPrefix(folder, r.head)

DeleteBranchFolderFlow ==
    \/ /\ Running({"df_start"})
       /\ IF CurrentBranchInFolder(repo, loc.folder)
          THEN /\ AbortTask(stack, TRUE)
               /\ UNCHANGED <<log, loc>>
          ELSE /\ \E listing \in Listings(FolderBranches(repo, loc.folder)) :
                    loc' = [loc EXCEPT !.fb = listing, !.i = 1]
               /\ log' = Append(log, Event("prompt", "DeleteBranchFolder", "confirm", Top))
               /\ Continue(Goto(Top, "df_confirmed"), [Request("prompt", "confirm") EXCEPT !.canCancel = TRUE])
       /\ UNCHANGED <<repo, ctx, res, hook>>
    \/ /\ Running({"df_confirmed"})
       /\ Continue(Goto(Top, "df_worker"), Request("worker", ""))
       /\ UNCHANGED <<repo, loc, ctx, res, log, hook>>
    \/ /\ Running({"df_worker"})
       /\ Continue(Goto(AddEffects(Top, {"Refs"}), "df_loop"), NoReq)
       /\ UNCHANGED <<repo, loc, ctx, res, log, hook>>
    \/ /\ Running({"df_loop"})
       /\ IF loc.i > Len(loc.fb)
          THEN /\ Continue(PostStatus(Goto(Top, "end"), "Branches deleted in folder"), NoReq)
               /\ UNCHANGED <<repo, loc, log>>
          ELSE LET b == loc.fb[loc.i] IN
               /\ log' = Append(log, Named(Event("write", "DeleteBranchFolder", "delete_local_branch", Top), b))
               /\ IF CanDelete(repo, b)
                  THEN /\ repo' = DeleteLocalBranch(repo, b)
                       /\ loc' = [loc EXCEPT !.i = @ + 1]
                       /\ Continue(Top, NoReq)
                  ELSE /\ Raise(stack, "GitError")
                       /\ UNCHANGED <<repo, loc>>
       /\ UNCHANGED <<ctx, res, hook>>

----------------------------------------------------------------------------
\* NewBranchFromCommit, NewBranchFromHead, NewBranchFromRef

\* upstreams the dialog offers: the remote branches pointing at the tip and the
\* upstreams of the local branches pointing at it
UpstreamsAt(r, tip) ==
    (IF tip = RemoteTarget THEN {RemoteBranch} ELSE {})
    \cup ({Upstream(r, n) : n \in {m \in LocalBranches(r) : r.branches[m] = tip}} \ {""})

\* what the accepted NewBranchDialog holds: a name that is not reserved, the
\* switch box (enabled by allowSwitching only), the upstream to track
NewBranchInputs(r, tip) ==
    [localName : {N} \ LocalBranches(r),
     switchTo : IF r.conflicts THEN {FALSE} ELSE BOOLEAN,
     trackUpstream : {""} \cup UpstreamsAt(r, tip)]

NewBranchCreatedEffects_None == {}

NewBranchCreatedEffects == {"Refs", "Upstreams"}

NewBranchSwitchEffects_None == {}

NewBranchSwitchEffects == {"Head"}

SwitchAsks_Always == TRUE

\* askForConfirmation of the SwitchBranch subtask
SwitchAsks == FALSE

NewBranchFromCommitFlow ==
    \/ /\ Running({"nb_start"})
       /\ log' = Append(log, Event("prompt", "NewBranchFromCommit", "dialog", Top))
       /\ Continue(Goto(Top, "nb_input"), [Request("prompt", "dialog") EXCEPT !.canCancel = TRUE])
       /\ UNCHANGED <<repo, loc, ctx, res, hook>>
    \/ /\ Running({"nb_input"})
       /\ \E dlg \in NewBranchInputs(repo, loc.tip) :
            loc' = [loc EXCEPT !.nbName = dlg.localName, !.switchTo = dlg.switchTo,
                               !.trackUpstream = dlg.trackUpstream]
       /\ Continue(Goto(Top, "nb_create"), Request("worker", ""))
       /\ UNCHANGED <<repo, ctx, res, log, hook>>
    \/ /\ Running({"nb_create"})
       /\ LET created == Named(Event("write", "NewBranchFromCommit", "create_branch_from_commit", Top), loc.nbName)
              f1 == PostStatus(AddEffects(Top, NewBranchCreatedEffects), "Branch created")
              tracked == Named(Event("write", "NewBranchFromCommit", "edit_upstream_branch", f1), loc.nbName)
              r1 == CreateBranchFromCommit(repo, loc.nbName, loc.tip)
          IN
          IF ~CanCreate(repo, loc.nbName)
          THEN /\ log' = Append(log, created)
               /\ Raise(stack, "AlreadyExistsError")
               /\ UNCHANGED repo
          ELSE /\ log' = IF loc.trackUpstream # "" THEN log \o <<created, tracked>>
                         ELSE Append(log, created)
               /\ repo' = IF loc.trackUpstream # "" THEN EditUpstream(r1, loc.nbName, loc.trackUpstream)
                          ELSE r1
               /\ IF loc.switchTo
                  THEN Continue(Goto(AddEffects(f1, NewBranchSwitchEffects), "nb_switch"), Request("ui", ""))
                  ELSE Continue(Goto(f1, "end"), NoReq)
       /\ UNCHANGED <<loc, ctx, res, hook>>
    \/ /\ Running({"nb_switch"})
       /\ loc' = [loc EXCEPT !.sbBranch = loc.nbName, !.sbAsk = SwitchAsks, !.sbRefresh = TRUE]
       /\ Continue(Goto(Top, "end"), Request("subtask", "SwitchBranch"))
       /\ UNCHANGED <<repo, ctx, res, log, hook>>

NewBranchFromHeadFlow ==
    /\ Running({"nh_start"})
    /\ IF repo.headKind = "detached"
       THEN /\ loc' = [loc EXCEPT !.tip = repo.headCommit]
            /\ Continue(Goto(Top, "end"), Request("subtask", "NewBranchFromCommit"))
       ELSE /\ loc' = [loc EXCEPT !.refIsRemote = FALSE, !.name = repo.head]
            /\ Continue(Goto(Top, "end"), Request("subtask", "NewBranchFromRef"))
    /\ UNCHANGED <<repo, ctx, res, log, hook>>

NewBranchFromRefFlow ==
    /\ Running({"nr_start"})
    /\ IF loc.refIsRemote
       THEN /\ loc' = [loc EXCEPT !.tip = RemoteTarget, !.suggestUpstream = RemoteBranch,
                                  !.checkUpstream = TRUE]
            /\ Continue(Goto(Top, "end"), Request("subtask", "NewBranchFromCommit"))
       ELSE IF loc.name \in LocalBranches(repo)
       THEN /\ loc' = [loc EXCEPT !.tip = repo.branches[loc.name],
                                  !.suggestUpstream = Upstream(repo, loc.name),
                                  !.checkUpstream = FALSE]
            /\ Continue(Goto(Top, "end"), Request("subtask", "NewBranchFromCommit"))
       ELSE /\ Raise(stack, "KeyError")
            /\ UNCHANGED loc
    /\ UNCHANGED <<repo, ctx, res, log, hook>>

----------------------------------------------------------------------------
\* EditUpstreamBranch

EditUpstreamBranchFlow ==
    \/ /\ Running({"eu_start"})
       /\ IF IsNoOp(loc.remote, Upstream(repo, loc.name))
          THEN AbortTask(stack, FALSE)
          ELSE Continue(Goto(Top, "eu_edit"), Request("worker", ""))
       /\ UNCHANGED <<repo, loc, ctx, res, log, hook>>
    \/ /\ Running({"eu_edit"})
       /\ LET f == AddEffects(Top, {"Upstreams"}) IN
          /\ log' = Append(log, Named(Event("write", "EditUpstreamBranch", "edit_upstream_branch", f), loc.name))
          /\ repo' = EditUpstream(repo, loc.name, loc.remote)
          /\ Continue(PostStatus(Goto(f, "end"), "Branch now tracks"), NoReq)
       /\ UNCHANGED <<loc, ctx, res, hook>>

----------------------------------------------------------------------------
\* ResetHead

ResetHeadFlow ==
    \/ /\ Running({"rh_start"})
       /\ log' = Append(log, Event("prompt", "ResetHead", "dialog", Top))
       /\ Continue(Goto(Top, "rh_reset"), [Request("prompt", "dialog") EXCEPT !.canCancel = TRUE])
       /\ UNCHANGED <<repo, loc, ctx, res, hook>>
    \/ /\ Running({"rh_reset"})
       /\ LET f == AddEffects(Top, {"Refs", "Workdir"}) IN
          /\ log' = Append(log, Event("process", "ResetHead", "reset", f))
          /\ Continue(Goto(f, "rh_done"), CallGit("reset"))
       /\ UNCHANGED <<repo, loc, ctx, res, hook>>
    \/ /\ Running({"rh_done"})
       /\ Continue(PostStatus(Goto(Top, "end"), "Branch was reset"), NoReq)
       /\ UNCHANGED <<repo, loc, ctx, res, log, hook>>

----------------------------------------------------------------------------
\* RecallCommit

Recalled == <<"recall">>

RecallCommitFlow ==
    \/ /\ Running({"rc_start"})
       /\ log' = Append(log, Event("prompt", "RecallCommit", "dialog", Top))
       /\ Continue(Goto(Top, "rc_input"), [Request("prompt", "dialog") EXCEPT !.canCancel = TRUE])
       /\ UNCHANGED <<repo, loc, ctx, res, hook>>
    \/ /\ Running({"rc_input"})
       /\ \E needle \in {"c0", "unknown"} : loc' = [loc EXCEPT !.tip = needle]
       /\ Continue(Goto(Top, "rc_create"), Request("worker", ""))
       /\ UNCHANGED <<repo, ctx, res, log, hook>>
    \/ /\ Running({"rc_create"})
       /\ LET f == AddEffects(Top, {"Refs"}) IN
          IF loc.tip \notin Commits
          THEN /\ Raise(WithTop(f), "KeyError")
               /\ UNCHANGED <<repo, log>>
          ELSE /\ log' = Append(log, Named(Event("write", "RecallCommit", "create_branch_from_commit", f), Recalled))
               /\ repo' = CreateBranchFromCommit(repo, Recalled, loc.tip)
               /\ Continue(Goto(f, "end"), NoReq)
       /\ UNCHANGED <<loc, ctx, res, hook>>

----------------------------------------------------------------------------
\* Merge analysis (libgit2): what merge_analysis may answer

Analyses(unborn) ==
    IF unborn THEN {{"UNBORN"}, {"FASTFORWARD", "UNBORN"}}
    ELSE {{"UP_TO_DATE"}, {"FASTFORWARD", "NORMAL"}, {"NORMAL"}}

----------------------------------------------------------------------------
\* FastForwardBranch

FastForwardEffects_WithHead(checkedOut) == {"Refs", "Head"}

\* _withGit: Refs, and Head if the branch is the checked-out one
FastForwardEffects(checkedOut) == IF checkedOut THEN {"Refs", "Head"} ELSE {"Refs"}

FastForwardBranchFlow ==
    \/ /\ Running({"ff_start"})
       /\ LET localBranchName == IF loc.name = NoName THEN repo.head ELSE loc.name IN
          IF loc.name = NoName /\ ~CheckPrereqs({"NoUnborn", "NoDetached"}, repo)
          THEN /\ Raise(stack, "PrereqViolation")
               /\ UNCHANGED loc
          ELSE IF localBranchName \notin LocalBranches(repo)
          THEN /\ Raise(stack, "KeyError")
               /\ UNCHANGED loc
          ELSE IF Upstream(repo, localBranchName) = ""
          THEN /\ AbortTask(stack, TRUE)
               /\ UNCHANGED loc
          ELSE /\ loc' = [loc EXCEPT !.name = localBranchName, !.target = RemoteTarget]
               /\ Continue(Goto(Top, "ff_analysis"), Request("worker", ""))
       /\ UNCHANGED <<repo, ctx, res, log, hook>>
    \/ /\ Running({"ff_analysis"})
       /\ log' = Append(log, Event("call", "FastForwardBranch", "merge_analysis", Top))
       /\ \E analysis \in Analyses(FALSE) :
            IF "UP_TO_DATE" \in analysis
            THEN /\ loc' = [loc EXCEPT !.analysis = analysis, !.upToDate = TRUE]
                 /\ Continue(Goto(Top, "ff_notice"), Request("ui", ""))
            ELSE IF analysis = {"NORMAL", "FASTFORWARD"}
            THEN /\ loc' = [loc EXCEPT !.analysis = analysis, !.upToDate = FALSE]
                 /\ Continue(Goto(AddEffects(Top, FastForwardEffects(IsCheckedOut(repo, loc.name))),
                                  "ff_call"),
                             Request("ui", ""))
            ELSE /\ loc' = [loc EXCEPT !.analysis = analysis]
                 /\ Raise(stack, IF analysis = {"NORMAL"} THEN "DivergentBranchesError"
                                 ELSE "NotImplementedError")
       /\ UNCHANGED <<repo, ctx, res, hook>>
    \/ /\ Running({"ff_call"})
       /\ LET cmd == IF IsCheckedOut(repo, loc.name) THEN "merge --ff-only" ELSE "push" IN
          /\ log' = Append(log, Event("process", "FastForwardBranch", cmd, Top))
          /\ Continue(Goto(Top, "ff_exited"), CallGit(cmd))
       /\ UNCHANGED <<repo, loc, ctx, res, hook>>
    \/ /\ Running({"ff_exited"})
       /\ IF loc.exitCode # 0
          THEN Raise(stack, "DivergentBranchesError")
          ELSE Continue(Goto(Top, "ff_notice"), Request("ui", ""))
       /\ UNCHANGED <<repo, loc, ctx, res, log, hook>>
    \/ /\ Running({"ff_notice"})
       /\ IF loc.upToDate
          THEN /\ log' = Append(log, Event("prompt", "FastForwardBranch", "notice", Top))
               /\ Continue(PostStatus(Goto(Top, "end"), "No fast-forwarding necessary"),
                           Request("prompt", "notice"))
          ELSE /\ Continue(Goto(Top, "end"), NoReq)
               /\ UNCHANGED log
       /\ UNCHANGED <<repo, loc, ctx, res, hook>>

----------------------------------------------------------------------------
\* ApplyStash (its flow also runs inside MergeBranch, on MergeBranch's task)

AutoStash == "auto"

ApplyStashEffects_WorkdirOnly(deleteAfterApply) == {"Workdir"}

ApplyStashEffects(deleteAfterApply) ==
    IF deleteAfterApply THEN {"Workdir", "Refs"} ELSE {"Workdir"}

\* the context the flow asks for once the process has exited, and once the
\* index is refreshed
ApplyStashAfterCall_Stay == NoReq

ApplyStashAfterCall == Request("worker", "")

ApplyStashAfterRefresh_Stay == NoReq

ApplyStashAfterRefresh == Request("ui", "")

PopOrApply_Pop(deleteAfterApply) == "stash pop"

PopOrApply(deleteAfterApply) == IF deleteAfterApply THEN "stash pop" ELSE "stash apply"

ApplyStashOutcome_Applied(exitCode, anyConflicts) ==
    IF exitCode # 0 /\ anyConflicts THEN "conflicts" ELSE "applied"

ApplyStashOutcome_NoConflictCase(exitCode, anyConflicts) ==
    IF exitCode = 0 THEN "applied" ELSE "failed"

\* how the flow reads the exit code of the process and the conflicts of the index
ApplyStashOutcome(exitCode, anyConflicts) ==
    IF exitCode = 0 THEN "applied"
    ELSE IF anyConflicts THEN "conflicts"
    ELSE "failed"

ApplyStashFlow ==
    \/ /\ Running({"as_start"})
       /\ IF loc.silent
          THEN /\ loc' = [loc EXCEPT !.deleteAfterApply = TRUE]
               /\ Continue(Goto(Top, "as_apply"), NoReq)
               /\ UNCHANGED log
          ELSE /\ log' = Append(log, Event("prompt", "ApplyStash", "dialog", Top))
               /\ Continue(Goto(Top, "as_input"), [Request("prompt", "dialog") EXCEPT !.canCancel = TRUE])
               /\ UNCHANGED loc
       /\ UNCHANGED <<repo, ctx, res, hook>>
    \/ /\ Running({"as_input"})
       /\ \E ticked \in BOOLEAN : loc' = [loc EXCEPT !.deleteAfterApply = ticked]
       /\ Continue(Goto(Top, "as_apply"), NoReq)
       /\ UNCHANGED <<repo, ctx, res, log, hook>>
    \/ /\ Running({"as_apply"})
       /\ LET f == AddEffects(Top, ApplyStashEffects(loc.deleteAfterApply))
              backup == Event("backup", "ApplyStash", loc.stash, f)
              stashIndex == IndexOf(repo.stashes, loc.stash)
              cmd == PopOrApply(loc.deleteAfterApply)
              call == Event("process", "ApplyStash", cmd, f)
          IN
          IF stashIndex = 0
          THEN /\ log' = IF loc.deleteAfterApply THEN Append(log, backup) ELSE log
               /\ Raise(WithTop(f), "KeyError")
               /\ UNCHANGED loc
          ELSE /\ log' = IF loc.deleteAfterApply THEN log \o <<backup, call>> ELSE Append(log, call)
               /\ loc' = [loc EXCEPT !.stashIndex = stashIndex]
               /\ Continue(Goto(f, "as_exited"), CallGit(cmd))
       /\ UNCHANGED <<repo, ctx, res, hook>>
    \/ /\ Running({"as_exited"})
       /\ Continue(Goto(Top, "as_refresh"), ApplyStashAfterCall)
       /\ UNCHANGED <<repo, loc, ctx, res, log, hook>>
    \/ /\ Running({"as_refresh"})
       /\ log' = Append(log, Event("call", "ApplyStash", "refresh_index", Top))
       /\ loc' = [loc EXCEPT !.anyConflicts = repo.conflicts]
       /\ Continue(Goto(Top, "as_report"), ApplyStashAfterRefresh)
       /\ UNCHANGED <<repo, ctx, res, hook>>
    \/ /\ Running({"as_report"})
       /\ IF ApplyStashOutcome(loc.exitCode, loc.anyConflicts) = "applied"
          THEN /\ Continue(PostStatus(Goto(Top, "end"),
                                      IF loc.deleteAfterApply THEN "Stash applied and deleted"
                                      ELSE "Stash applied"), NoReq)
               /\ UNCHANGED log
          ELSE IF ApplyStashOutcome(loc.exitCode, loc.anyConflicts) = "conflicts"
          THEN LET f == PostStatus(Goto(Top, "end"), "Stash applied, with conflicts") IN
               /\ log' = Append(log, Event("prompt", "ApplyStash", "showWarning", f))
               /\ Continue(f, NoReq)
          ELSE /\ AbortTask(WithTop(PostStatus(Top, "Stash could not be applied")), TRUE)
               /\ UNCHANGED log
       /\ UNCHANGED <<repo, loc, ctx, res, hook>>

----------------------------------------------------------------------------
\* MergeBranch

MergeBranchEffects == {"Refs", "Workdir"}

MergeMode_FastForwardOnly(wantMergeCommit) == "merge --ff-only"

\* _withGit: --no-ff if a merge commit is wanted, --ff-only if not
MergeMode(wantMergeCommit) == IF wantMergeCommit THEN "merge --no-ff" ELSE "merge --ff-only"

ReapplyAfterMerge_OnSuccess(stashAndReapply, exitCode) == stashAndReapply /\ exitCode = 0

\* whether the auto stash is popped once the merge process has returned
ReapplyAfterMerge(stashAndReapply, exitCode) == stashAndReapply

MergeBranchFlow ==
    \/ /\ Running({"mb_start"})
       /\ Continue(Goto(Top, "mb_analysis"), Request("worker", ""))
       /\ UNCHANGED <<repo, loc, ctx, res, log, hook>>
    \/ /\ Running({"mb_analysis"})
       /\ log' = log \o << Event("call", "MergeBranch", "refresh_index", Top),
                           Event("call", "MergeBranch", "merge_analysis", Top) >>
       /\ \E analysis \in Analyses(repo.headKind = "unborn") :
            loc' = [loc EXCEPT !.anyStagedFiles = repo.staged, !.anyConflicts = repo.conflicts,
                               !.analysis = analysis, !.wantMergeCommit = TRUE,
                               !.stashAndReapply = FALSE]
       /\ Continue(Goto(Top, "mb_decide"), Request("ui", ""))
       /\ UNCHANGED <<repo, ctx, res, hook>>
    \/ /\ Running({"mb_decide"})
       /\ IF \/ loc.anyConflicts
             \/ loc.anyStagedFiles
             \/ loc.analysis = {"UP_TO_DATE"}
             \/ loc.analysis = {"UNBORN"}
          THEN /\ AbortTask(stack, TRUE)
               /\ UNCHANGED <<loc, log>>
          ELSE IF loc.analysis = {"FASTFORWARD", "NORMAL"}
          THEN IF loc.silentFastForward
               THEN /\ loc' = [loc EXCEPT !.wantMergeCommit = FALSE]
                    /\ IF repo.unstaged
                       THEN /\ log' = Append(log, Event("prompt", "MergeBranch", "stash", Top))
                            /\ Continue(Goto(Top, "mb_stash"), [Request("prompt", "stash") EXCEPT !.canCancel = TRUE])
                       ELSE /\ Continue(Goto(Top, "mb_perform"), NoReq)
                            /\ UNCHANGED log
               ELSE /\ log' = Append(log, Event("prompt", "MergeBranch", "confirmFastForward", Top))
                    /\ Continue(Goto(Top, "mb_confirmed"),
                                [Request("prompt", "confirmFastForward") EXCEPT !.canCancel = TRUE, !.action = TRUE])
                    /\ UNCHANGED loc
          ELSE IF loc.analysis = {"NORMAL"}
          THEN /\ log' = Append(log, Event("prompt", "MergeBranch", "mayCauseConflicts", Top))
               /\ Continue(Goto(Top, "mb_perform"), [Request("prompt", "mayCauseConflicts") EXCEPT !.canCancel = TRUE])
               /\ UNCHANGED loc
          ELSE /\ Raise(stack, "NotImplementedError")
               /\ UNCHANGED <<loc, log>>
       /\ UNCHANGED <<repo, ctx, res, hook>>
    \/ /\ Running({"mb_stash"})
       /\ loc' = [loc EXCEPT !.stashAndReapply = (res # "")]
       /\ Continue(Goto(Top, IF res # "" THEN "mb_perform" ELSE "end"), NoReq)
       /\ UNCHANGED <<repo, ctx, res, log, hook>>
    \/ /\ Running({"mb_confirmed"})
       /\ loc' = [loc EXCEPT !.wantMergeCommit = (res # "ok")]
       /\ Continue(Goto(Top, "mb_perform"), NoReq)
       /\ UNCHANGED <<repo, ctx, res, log, hook>>
    \/ /\ Running({"mb_perform"})
       /\ LET f == AddEffects(Top, MergeBranchEffects)
              cmd == MergeMode(loc.wantMergeCommit)
              stashing == << Event("write", "MergeBranch", "create_stash", Top),
                             Event("write", "MergeBranch", "restore_files_from_head", Top) >>
          IN
          /\ log' = (IF loc.stashAndReapply THEN log \o stashing ELSE log)
                    \o << Event("process", "MergeBranch", cmd, f) >>
          /\ repo' = IF loc.stashAndReapply
                     THEN RestoreFilesFromHead(CreateStash(repo, AutoStash))
                     ELSE repo
          /\ Continue(Goto(f, "mb_merged"), CallGit(cmd))
       /\ UNCHANGED <<loc, ctx, res, hook>>
    \/ /\ Running({"mb_merged"})
       /\ LET f == PostStatus(Top, IF loc.wantMergeCommit THEN "Merging"
                                   ELSE "Branch fast-forwarded") IN
          IF ReapplyAfterMerge(loc.stashAndReapply, loc.exitCode)
          THEN /\ loc' = [loc EXCEPT !.stash = AutoStash, !.silent = TRUE]
               /\ log' = Append(log, [Event("enter", "ApplyStash", "", f) EXCEPT
                                        !.ok = CheckPrereqs(Prereqs("ApplyStash"), repo)])
               /\ Continue(Goto(f, "as_start"), NoReq)
          ELSE /\ Continue(Goto(f, "end"), NoReq)
               /\ UNCHANGED <<loc, log>>
       /\ UNCHANGED <<repo, ctx, res, hook>>

----------------------------------------------------------------------------
\* NewStash, DropStash

NewStashId == "new"

NewStashFlow ==
    \/ /\ Running({"ns_start"})
       /\ IF ~(repo.staged \/ repo.unstaged)
          THEN /\ AbortTask(stack, TRUE)
               /\ UNCHANGED log
          ELSE /\ log' = Append(log, Event("prompt", "NewStash", "dialog", Top))
               /\ Continue(Goto(Top, "ns_input"), [Request("prompt", "dialog") EXCEPT !.canCancel = TRUE])
       /\ UNCHANGED <<repo, loc, ctx, res, hook>>
    \/ /\ Running({"ns_input"})
       /\ \E keepIntact \in BOOLEAN : loc' = [loc EXCEPT !.keepIntact = keepIntact]
       /\ Continue(Goto(Top, "ns_create"), Request("worker", ""))
       /\ UNCHANGED <<repo, ctx, res, log, hook>>
    \/ /\ Running({"ns_create"})
       /\ LET f1 == AddEffects(Top, {"Refs"})
              f2 == IF loc.keepIntact THEN f1 ELSE AddEffects(f1, {"Workdir"})
              r1 == CreateStash(repo, NewStashId)
          IN
          /\ log' = log \o <<Event("write", "NewStash", "create_stash", f1)>>
                        \o (IF loc.keepIntact THEN <<>>
                            ELSE <<Event("write", "NewStash", "restore_files_from_head", f2)>>)
          /\ repo' = IF loc.keepIntact THEN r1 ELSE RestoreFilesFromHead(r1)
          /\ Continue(PostStatus(Goto(f2, "end"), "Files stashed"), NoReq)
       /\ UNCHANGED <<loc, ctx, res, hook>>

\* the effects declared before the confirmation instead of after it
DropStashFlow_EffectsFirst ==
    \/ /\ Running({"ds_start"})
       /\ LET f == AddEffects(Top, {"Refs"}) IN
          /\ log' = Append(log, Event("prompt", "DropStash", "confirm", f))
          /\ Continue(Goto(f, "ds_drop"), [Request("prompt", "confirm") EXCEPT !.canCancel = TRUE])
       /\ UNCHANGED <<repo, loc, ctx, res, hook>>
    \/ /\ Running({"ds_drop"})
       /\ LET stashIndex == IndexOf(repo.stashes, loc.stash) IN
          /\ log' = log \o << Event("backup", "DropStash", loc.stash, Top),
                              Event("process", "DropStash", "stash drop", Top) >>
          /\ loc' = [loc EXCEPT !.stashIndex = stashIndex]
          /\ Continue(Goto(Top, "ds_done"), CallGit("stash drop"))
       /\ UNCHANGED <<repo, ctx, res, hook>>
    \/ /\ Running({"ds_done"})
       /\ Continue(PostStatus(Goto(Top, "end"), "Stash deleted"), NoReq)
       /\ UNCHANGED <<repo, loc, ctx, res, log, hook>>

DropStashFlow ==
    \/ /\ Running({"ds_start"})
       /\ log' = Append(log, Event("prompt", "DropStash", "confirm", Top))
       /\ Continue(Goto(Top, "ds_drop"), [Request("prompt", "confirm") EXCEPT !.canCancel = TRUE])
       /\ UNCHANGED <<repo, loc, ctx, res, hook>>
    \/ /\ Running({"ds_drop"})
       /\ LET f == AddEffects(Top, {"Refs"})
              stashIndex == IndexOf(repo.stashes, loc.stash)
          IN
          /\ log' = log \o << Event("backup", "DropStash", loc.stash, Top),
                              Event("process", "DropStash", "stash drop", f) >>
          /\ loc' = [loc EXCEPT !.stashIndex = stashIndex]
          /\ Continue(Goto(f, "ds_done"), CallGit("stash drop"))
       /\ UNCHANGED <<repo, ctx, res, hook>>
    \/ /\ Running({"ds_done"})
       /\ Continue(PostStatus(Goto(Top, "end"), "Stash deleted"), NoReq)
       /\ UNCHANGED <<repo, loc, ctx, res, log, hook>>

----------------------------------------------------------------------------
\* After the end: what the executor presents, and the task's onError hook

\* FastForwardBranch.onError: a warning, with a "Merge into ..." button when the
\* local branch is checked out; anything else goes to the generic error dialog
OnError_Generic == "error dialog"

OnError ==
    IF loc.op = "FastForwardBranch" /\ err = "DivergentBranchesError"
    THEN IF IsCheckedOut(repo, loc.name) THEN "warning, merge button" ELSE "warning"
    ELSE "error dialog"

Present ==
    /\ outcome \in Terminal
    /\ hook = "none"
    /\ hook' = CASE outcome = "completed" -> "status"
                 [] outcome = "aborted" -> IF abortMsg THEN "message" ELSE "silent"
                 [] outcome = "prereq" -> "silent"
                 [] outcome = "failed" -> OnError
    /\ UNCHANGED <<repo, stack, loc, ctx, req, res, outcome, abortMsg, err, result, log, done>>

\* the user clicks the merge button: MergeBranch.invoke(parentWidget, rb.name)
ClickMerge ==
    /\ hook = "warning, merge button"
    /\ hook' = "MergeBranch invoked"
    /\ UNCHANGED <<repo, stack, loc, ctx, req, res, outcome, abortMsg, err, result, log, done>>

Next ==
    \/ Invoke
    \/ SwitchContext
    \/ Answer
    \/ ProcessExit
    \/ StartSubtask
    \/ Return
    \/ SwitchBranchFlow
    \/ RenameBranchFlow
    \/ RenameBranchFolderFlow
    \/ DeleteBranchFlow
    \/ DeleteBranchFolderFlow
    \/ NewBranchFromCommitFlow
    \/ NewBranchFromHeadFlow
    \/ NewBranchFromRefFlow
    \/ EditUpstreamBranchFlow
    \/ ResetHeadFlow
    \/ RecallCommitFlow
    \/ FastForwardBranchFlow
    \/ ApplyStashFlow
    \/ MergeBranchFlow
    \/ NewStashFlow
    \/ DropStashFlow
    \/ Present
    \/ ClickMerge

Spec == Init /\ [][Next]_vars

\* a step the flow takes by itself: a backend call that returns or raises, a
\* subtask that starts, a flow that returns
Step ==
    \/ StartSubtask
    \/ Return
    \/ SwitchBranchFlow
    \/ RenameBranchFlow
    \/ RenameBranchFolderFlow
    \/ DeleteBranchFlow
    \/ DeleteBranchFolderFlow
    \/ NewBranchFromCommitFlow
    \/ NewBranchFromHeadFlow
    \/ NewBranchFromRefFlow
    \/ EditUpstreamBranchFlow
    \/ ResetHeadFlow
    \/ RecallCommitFlow
    \/ FastForwardBranchFlow
    \/ ApplyStashFlow
    \/ MergeBranchFlow
    \/ NewStashFlow
    \/ DropStashFlow

\* the suspension points resolve: every prompt is answered, every process exits,
\* every context switch is granted, and the flow goes on when it can
FairSpec ==
    /\ Spec
    /\ WF_vars(Answer)
    /\ WF_vars(ProcessExit)
    /\ WF_vars(SwitchContext)
    /\ WF_vars(Step)

----------------------------------------------------------------------------
\* Properties

Events(k) == {i \in DOMAIN log : log[i].k = k}

\* the subtasks of the finished task done[j]
Children(j) == {i \in 1..(j - 1) : done[i].depth = done[j].depth + 1}

Last(q) == q[Len(q)]

\* the user declined the detached-HEAD warning of SwitchBranch
DeclinedWarning ==
    /\ Len(log) >= 2
    /\ Last(log).k = "answer" /\ Last(log).a = "cancel"
    /\ log[Len(log) - 1].k = "prompt" /\ log[Len(log) - 1].a = "detached"

\* C1: Prereq gating.  Every flow body that is entered, through the executor, as a
\* subtask or inline from another flow, is entered with the prereqs its task
\* declares satisfied; and a task refused by the gate has done nothing and shown
\* nothing.
C1_PrereqGating ==
    /\ \A i \in Events("enter") : log[i].ok
    /\ outcome = "prereq" => (log = <<>> /\ result = {} /\ done = <<>>)

\* the effects observed at the steps logged so far, task by task
C2_Observed ==
    /\ \A i, j \in DOMAIN log : (i < j /\ log[i].t = log[j].t) => log[i].e \subseteq log[j].e
    /\ \A i \in DOMAIN log : \A d \in DOMAIN done :
          log[i].t = done[d].task => log[i].e \subseteq done[d].effects

\* C2: Effect monotonicity.  The effects observed at a step of a task are contained
\* in the effects observed at every later step of it and in its final EffectSet; no
\* step makes the effects of a task of the stack smaller, and what the root task
\* had accumulated is in the EffectSet returned.
C2_EffectMonotonicity ==
    /\ []C2_Observed
    /\ [][ /\ \A i \in DOMAIN stack :
               (i \in DOMAIN stack' /\ stack'[i].task = stack[i].task)
                   => stack[i].effects \subseteq stack'[i].effects
           /\ (stack # <<>> /\ stack' = <<>>) => stack[1].effects \subseteq result'
         ]_vars

\* a flow whose effects grew in two separate places
C2_Witness ==
    \E i, j \in DOMAIN log : i < j /\ log[i].t = log[j].t
                             /\ log[i].e # {} /\ log[i].e # log[j].e /\ log[i].e \subseteq log[j].e

\* C3 as stated: a task that aborts after a subtask ran returns exactly that
\* subtask's EffectSet, no more.
C3_AbortReturnsSubtaskEffects ==
    \A j \in DOMAIN done : done[j].how = "aborted" =>
        \A i \in Children(j) : done[j].effects = done[i].effects

\* C3 amended: a task that aborts returns exactly what its own steps had declared
\* before the abort together with the EffectSets of its subtasks: nothing when it
\* had declared nothing and ran no subtask with effects; Refs|Upstreams|Head for
\* NewBranchFromCommit whose SwitchBranch subtask aborts with an empty EffectSet.
C3_AbortPurity ==
    /\ \A j \in DOMAIN done : done[j].how = "aborted" =>
          /\ done[j].effects = done[j].own \cup UNION {done[i].effects : i \in Children(j)}
          /\ (done[j].task = "NewBranchFromCommit"
              /\ \E i \in Children(j) : done[i].task = "SwitchBranch" /\ done[i].effects = {})
                => done[j].effects = {"Refs", "Upstreams", "Head"}
    /\ (outcome = "aborted" /\ done # <<>>) => result = Last(done).effects
    /\ (outcome = "aborted" /\ done = <<>>) => result = {}

C3_Witness ==
    /\ outcome = "aborted"
    /\ DeclinedWarning
    /\ \E j \in DOMAIN done : done[j].task = "NewBranchFromCommit" /\ done[j].how = "aborted"
          /\ \E i \in Children(j) : done[i].task = "SwitchBranch" /\ done[i].effects = {}

\* C4: Subtask effect propagation.  The final EffectSet of a task contains the
\* final EffectSet of each of its subtasks, whether the subtask completed or
\* aborted, and the EffectSet returned contains them all.
C4_SubtaskEffects ==
    /\ \A j \in DOMAIN done : \A i \in Children(j) : done[i].effects \subseteq done[j].effects
    /\ outcome \in Terminal => \A i \in DOMAIN done : done[i].effects \subseteq result

\* a subtask that aborted with effects, under a parent that declared none
C4_Witness ==
    \E j \in DOMAIN done : \E i \in Children(j) :
        /\ done[i].how = "aborted" /\ done[i].effects # {}
        /\ done[j].task \in {"NewBranchFromRef", "NewBranchFromHead"} /\ done[j].own = {}

\* what holds of every state after the flow has raised
C5_Stopped ==
    outcome \in {"aborted", "failed"} =>
        /\ stack = <<>> /\ req = NoReq
        /\ \A i \in DOMAIN log : log[i].e \subseteq result
        /\ (loc.op = "ApplyStash" /\ Events("exit") # {})
              => result = (IF loc.deleteAfterApply THEN {"Workdir", "Refs"} ELSE {"Workdir"})

\* C5: Terminal outcomes are final.  Once the flow has raised AbortTask or an
\* error, no task is left on the stack and no request is pending, every effect
\* observed at any step before is in the EffectSet returned (ApplyStash aborting
\* with "could not be applied" returns Workdir, plus Refs if deletion was asked),
\* and from then on nothing but the presentation of the outcome changes.
C5_TerminalFinal ==
    /\ []C5_Stopped
    /\ [][(outcome \in {"aborted", "failed"}) =>
            (UNCHANGED <<repo, stack, loc, ctx, req, res, outcome, abortMsg, err, result, log, done>>)
         ]_vars

\* ApplyStash with deletion asked aborted because the stash could not be applied
C5_Witness ==
    /\ outcome = "aborted" /\ abortMsg /\ hook # "none"
    /\ loc.op = "ApplyStash" /\ loc.deleteAfterApply
    /\ Events("exit") # {}

\* what holds of every process that has exited with a non-zero code
C6_ProcessFatality ==
    \A i \in Events("exit") : log[i].x # 0 =>
        IF log[i].a \in {"checkout", "reset", "stash drop"}
        THEN /\ outcome = "failed" /\ err = "ProcessFailure"
             /\ i = Len(log)
             /\ \A d \in DOMAIN done :
                    done[d].status \notin {"Switched to branch", "Branch was reset", "Stash deleted"}
        ELSE err # "ProcessFailure"

\* the step at which a process exits: the flow goes on unless the call was fatal
C6_ExitStep ==
    (req.kind = "process" /\ req' = NoReq) =>
        IF req.arg \in {"checkout", "reset", "stash drop"} /\ Last(log').x # 0
        THEN outcome' = "failed" /\ stack' = <<>>
        ELSE outcome' = "running" /\ stack' = stack /\ loc'.exitCode = Last(log').x

\* C6: Process fatality flag.  A non-zero exit of a process called with autoFail
\* off (the merge, push and stash pop/apply calls) is no ProcessFailure; a
\* non-zero exit of a process called with the default (checkout, reset, stash drop)
\* ends the flow with ProcessFailure there and then, and the success status of the
\* task is never set.
C6_ProcessFatalityFlag == []C6_ProcessFatality /\ [][C6_ExitStep]_vars

C6_Witness ==
    /\ outcome = "failed" /\ err = "ProcessFailure"
    /\ Last(log).k = "exit" /\ Last(log).a = "checkout" /\ Last(log).x # 0

\* C7: UI affinity of prompts.  Every confirmation, dialog and warning box of every
\* flow is requested in the UI context.
C7_PromptsOnUiThread == \A i \in Events("prompt") : log[i].c = "ui"

\* a prompt requested after the flow had been in the worker context
C7_Witness ==
    \E i, j \in DOMAIN log : i < j /\ log[i].c = "worker" /\ log[j].k = "prompt"

\* the order of the steps of ApplyStash around its process call
C8_InOrder ==
    /\ \A i \in Events("call") : (log[i].t = "ApplyStash" /\ log[i].a = "refresh_index") =>
          /\ log[i].c = "worker"
          /\ \E j \in Events("exit") : j < i /\ log[j].a \in {"stash pop", "stash apply"}
    /\ \A i \in Events("prompt") : (log[i].t = "ApplyStash" /\ log[i].a = "showWarning") =>
          \E j \in Events("call") : j < i /\ log[j].t = "ApplyStash"

C9_Cancellation ==
    \A i \in Events("answer") : log[i].a = "cancel" =>
        /\ i = Len(log)
        /\ outcome = "aborted" /\ ~abortMsg /\ stack = <<>> /\ req = NoReq
        /\ (\A j \in 1..i : log[j].k \notin {"write", "process"}) => result = {}

C9_Witness ==
    /\ outcome = "aborted"
    /\ Last(log).k = "answer" /\ Last(log).a = "cancel"
    /\ loc.op = "DropStash"

\* C10: Subtask abort propagation.  An AbortTask raised in a subtask aborts every
\* task above it: the whole stack is gone, each parent ends aborted with at least
\* the effects of its subtask, the message is the subtask's.  Cancelling the
\* NewBranchFromCommit dialog under NewBranchFromRef or NewBranchFromHead returns
\* nothing; declining the detached-HEAD warning of the SwitchBranch subtask
\* returns the Refs|Upstreams|Head of NewBranchFromCommit.
C10_SubtaskAbort ==
    /\ \A i \in DOMAIN done : done[i].how = "aborted" =>
          /\ outcome = "aborted" /\ stack = <<>> /\ req = NoReq
          /\ \A j \in DOMAIN done : j > i => (done[j].how = "aborted"
                                               /\ done[i].effects \subseteq done[j].effects)
    /\ (outcome = "aborted" /\ loc.op \in {"NewBranchFromRef", "NewBranchFromHead"}
            /\ Last(log).k = "answer") =>
          /\ ~abortMsg
          /\ result = (IF DeclinedWarning THEN {"Refs", "Upstreams", "Head"} ELSE {})
          /\ Last(done).task = loc.op

C10_Witness ==
    /\ outcome = "aborted"
    /\ loc.op = "NewBranchFromHead"
    /\ Len(done) >= 3
    /\ Last(log).k = "answer" /\ Last(log).a = "cancel"

\* the steps of the log of kind k made by task t with detail a
Made(k, t, a) == {i \in Events(k) : log[i].t = t /\ log[i].a = a}

\* the flow takes a step from the position pc of its innermost task
StepFrom(pc) == stack # <<>> /\ Top.pc = pc /\ req = NoReq /\ stack' # stack

\* SwitchBranch, started on the branch that is checked out, takes its first step
C11_FirstStep ==
    (StepFrom("sb_start") /\ repo.headKind = "branch" /\ repo.head = loc.sbBranch) =>
        /\ outcome' = "aborted" /\ abortMsg'
        /\ log' = log /\ repo' = repo
        /\ Len(stack) = 1 => result' = {}

\* SwitchBranch has aborted with a message
C11_Aborted ==
    (loc.op = "SwitchBranch" /\ outcome = "aborted" /\ abortMsg) =>
        /\ Events("prompt") = {} /\ Events("process") = {} /\ Events("write") = {}
        /\ result = {}
        /\ repo.headKind = "branch" /\ repo.head = loc.sbBranch

\* C11: SwitchBranch on the branch that is already checked out aborts with a
\* message at its first step: no confirmation is shown, no process is called and
\* the EffectSet is empty.
C11_AlreadyCheckedOut == []C11_Aborted /\ [][C11_FirstStep]_vars

C11_Witness ==
    /\ loc.op = "SwitchBranch" /\ outcome = "aborted" /\ abortMsg
    /\ hook = "message"
    /\ loc.sbBranch = repo.head

\* DeleteBranch has completed
C12_Deleted ==
    (loc.op = "DeleteBranch" /\ outcome = "completed") =>
        /\ Made("prompt", "DeleteBranch", "confirm") # {}
        /\ \E i \in Events("answer") : log[i].a = "ok"
        /\ loc.name \notin LocalBranches(repo)
        /\ LocalBranches(repo) = DOMAIN Layout1 \ {loc.name}
        /\ result = {"Refs"}
        /\ Last(done).status = "Branch deleted"
        /\ loc.target = Layout1[loc.name]

\* DeleteBranch, started on a branch that is not checked out, takes its first step
C12_FirstStep ==
    (StepFrom("db_start") /\ loc.name # repo.head) =>
        /\ Len(log') = Len(log) + 1
        /\ Last(log').k = "prompt" /\ Last(log').c = "ui"
        /\ req'.kind = "prompt"

\* C12: DeleteBranch on a branch that is not checked out shows a confirmation; once
\* it is accepted the branch is removed, the EffectSet is exactly {Refs}, and the
\* status names the branch and the commit its tip was on before the deletion.
C12_DeleteBranch == []C12_Deleted /\ [][C12_FirstStep]_vars

C12_Witness ==
    /\ loc.op = "DeleteBranch" /\ outcome = "completed"
    /\ hook = "status"
    /\ loc.name = AAB /\ loc.target = "c2"

\* DeleteBranch or DeleteBranchFolder, started on (a folder of) the branch that
\* is checked out, takes its first step
C13_FirstStep ==
    /\ (StepFrom("db_start") /\ repo.head = loc.name) =>
            (outcome' = "aborted" /\ abortMsg' /\ log' = log /\ result' = {} /\ repo' = repo)
    /\ (StepFrom("df_start") /\ Len(loc.folder) < Len(repo.head)
            /\ SubSeq(repo.head, 1, Len(loc.folder)) = loc.folder) =>
            (outcome' = "aborted" /\ abortMsg' /\ log' = log /\ result' = {} /\ repo' = repo)

\* a step that calls delete_local_branch
C13_DeleteCall ==
    (Len(log') = Len(log) + 1 /\ Last(log').k = "write" /\ Last(log').a = "delete_local_branch") =>
        /\ Last(log').n # repo.head
        /\ Last(log').n \in LocalBranches(repo)

\* C13: the checked-out branch is never deleted.  DeleteBranch on the current
\* branch and DeleteBranchFolder on a folder holding it abort at their first step,
\* before any confirmation, with an empty EffectSet; and delete_local_branch is
\* never called on the branch that is checked out at the time of the call.
C13_CurrentBranchKept ==
    /\ [][C13_FirstStep /\ C13_DeleteCall]_vars
    /\ []((loc.op \in {"DeleteBranch", "DeleteBranchFolder"} /\ repo.headKind = "branch")
            => repo.head \in LocalBranches(repo))

C13_Witness ==
    /\ loc.op = "DeleteBranchFolder" /\ outcome = "aborted" /\ abortMsg
    /\ log = <<Enter("DeleteBranchFolder")>>

\* FastForwardBranch has ended with the divergence error and it has been presented
Diverged == loc.op = "FastForwardBranch" /\ err = "DivergentBranchesError" /\ hook # "none"

\* C14 as stated: the handling of the divergence error of FastForwardBranch offers
\* the "merge instead" action.
C14_MergeOffered == Diverged => hook \in {"warning, merge button", "MergeBranch invoked"}

\* C14 amended: FastForwardBranch raises the divergence error when the analysis
\* says NORMAL and when the git process exits non-zero; its handling shows a
\* warning, which offers the "merge instead" action only if the local branch is
\* the checked-out one; the action, if chosen, invokes MergeBranch with the
\* upstream of that branch.
C14_Divergence ==
    /\ (loc.op = "FastForwardBranch" /\ loc.analysis = {"NORMAL"})
          => (outcome = "failed" /\ err = "DivergentBranchesError")
    /\ (loc.op = "FastForwardBranch" /\ outcome # "running"
            /\ \E i \in Events("exit") : log[i].x # 0)
          => (outcome = "failed" /\ err = "DivergentBranchesError")
    /\ Diverged =>
          IF repo.headKind = "branch" /\ repo.head = loc.name
          THEN hook \in {"warning, merge button", "MergeBranch invoked"}
          ELSE hook = "warning"
    /\ hook \in {"warning, merge button", "MergeBranch invoked"} =>
          (Diverged /\ repo.upstreams[loc.name] = RemoteBranch /\ stack = <<>>)

C14_Witness ==
    /\ hook = "MergeBranch invoked"
    /\ \E i \in Events("exit") : log[i].a = "merge --ff-only" /\ log[i].x # 0

\* C15: MergeBranch on a working tree with unresolved conflicts aborts with a
\* message before the index is refreshed and before the merge analysis is run, with
\* no process called and an empty EffectSet.
C15_AbortBeforeAnalysis ==
    (loc.op = "MergeBranch" /\ repo.conflicts /\ Events("process") = {}) =>
        /\ Events("call") = {}
        /\ \A i \in DOMAIN log : log[i].c = "ui"
        /\ outcome \in Terminal => (outcome = "aborted" /\ abortMsg /\ result = {})

\* the dialog of RenameBranch or RenameBranchFolder was accepted with the
\* current name
C16_SameName ==
    \/ loc.op = "RenameBranch" /\ loc.newName = loc.name
    \/ loc.op = "RenameBranchFolder" /\ loc.newFolder = loc.folder

\* a task that ended as a silent no-op
C16_Silent ==
    /\ outcome = "aborted" /\ ~abortMsg /\ err = ""
    /\ result = {}
    /\ Events("write") = {} /\ Events("process") = {}
    /\ ctx = "ui" /\ \A i \in DOMAIN log : log[i].c = "ui"
    /\ repo.branches = Layout1

\* EditUpstreamBranch, given the upstream the branch tracks already, takes its
\* first step
C16_FirstStep ==
    (StepFrom("eu_start") /\ loc.remote = repo.upstreams[loc.name]) =>
        /\ outcome' = "aborted" /\ ~abortMsg' /\ err' = ""
        /\ result' = {} /\ repo' = repo /\ log' = log /\ ctx' = "ui" /\ req' = NoReq

\* C16: No-op detection.  RenameBranch given the old name, RenameBranchFolder given
\* the old folder name and EditUpstreamBranch given the current upstream abort with
\* no message and no error, write nothing, never enter the worker context and
\* return an empty EffectSet.
C16_NoOp == [](C16_SameName => C16_Silent) /\ [][C16_FirstStep]_vars

C16_Witness ==
    /\ loc.op = "RenameBranchFolder" /\ loc.newFolder = loc.folder
    /\ hook = "silent"
    /\ Last(log).k = "answer" /\ Last(log).a = "ok"

\* ApplyStash has reported, the process having exited non-zero and the index
\* holding conflicts
C17_Case ==
    /\ outcome \in Terminal
    /\ Made("call", "ApplyStash", "refresh_index") # {}
    /\ loc.exitCode # 0 /\ loc.anyConflicts

\* C17: ApplyStash whose apply/pop process exits non-zero while the index reports
\* conflicts completes normally: the status is "applied, with conflicts", the
\* conflict warning is shown in the UI context, and the stash is still there, also
\* when its deletion was asked.
C17_AppliedWithConflicts ==
    C17_Case =>
        /\ outcome = "completed" /\ err = ""
        /\ Last(done).status = "Stash applied, with conflicts"
        /\ Last(log).k = "prompt" /\ Last(log).a = "showWarning" /\ Last(log).c = "ui"
        /\ \E k \in DOMAIN repo.stashes : repo.stashes[k] = loc.stash

C17_Witness ==
    /\ C17_Case
    /\ loc.op = "ApplyStash" /\ loc.deleteAfterApply
    /\ hook = "status"

\* the effect flag that covers a repository mutation
Covering(a) ==
    CASE a \in {"create_branch_from_commit", "rename_local_branch", "delete_local_branch",
                "create_stash", "stash drop", "push", "reset", "merge --no-ff",
                "merge --ff-only"} -> "Refs"
      [] a = "edit_upstream_branch" -> "Upstreams"
      [] a = "checkout" -> "Head"
      [] a \in {"restore_files_from_head", "stash pop", "stash apply"} -> "Workdir"

\* C18: Conservative effect pre-declaration.  At every backend write and every
\* call of a mutating process, the effects of the task already hold the flag that
\* covers the mutation.
C18_DeclaredBeforeMutation ==
    \A i \in Events("write") \cup Events("process") : Covering(log[i].a) \in log[i].e

\* C19: Repository mutations stay off the UI thread.  Every backend write is made
\* in the worker context.
C19_WritesOnWorker == \A i \in Events("write") : log[i].c = "worker"

\* C20: RenameBranchFolder renames are collision-free.  Once the validator has
\* accepted a new folder name different from the old one, no rename_local_branch of
\* the loop fails on a name that is taken, and the loop renames every branch of the
\* folder.
C20_CollisionFree ==
    (loc.op = "RenameBranchFolder" /\ loc.newFolder # loc.folder /\ outcome \in Terminal
        /\ Events("write") # {}) =>
        /\ err # "AlreadyExistsError"
        /\ outcome = "completed"
        /\ FolderBranches(repo, loc.folder) \subseteq FolderBranches(repo, loc.newFolder)

\* the status of the tasks running and finished
Statuses == {stack[i].status : i \in DOMAIN stack} \cup {done[i].status : i \in DOMAIN done}

\* C21: MergeBranch reports success truthfully.  The status "Branch ...
\* fast-forwarded to ..." is set only if the git merge process exited with code 0.
C21_TruthfulStatus ==
    (loc.op = "MergeBranch" /\ "Branch fast-forwarded" \in Statuses) =>
        \A i \in Events("exit") : log[i].a = "merge --ff-only" => log[i].x = 0

\* the place in the log of the auto stash of MergeBranch, 0 if none was made
StashedAt ==
    IF Made("write", "MergeBranch", "create_stash") = {} THEN 0
    ELSE CHOOSE i \in Made("write", "MergeBranch", "create_stash") : TRUE

\* the step in which MergeBranch creates the auto stash
C22_StashStep ==
    (Made("write", "MergeBranch", "create_stash") = {} /\ StashedAt' # 0) =>
        /\ loc.silentFastForward /\ loc.analysis = {"FASTFORWARD", "NORMAL"}
        /\ repo.unstaged
        /\ Last(log).k = "answer" /\ Last(log).a = "ok"
        /\ log[Len(log) - 1].k = "prompt" /\ log[Len(log) - 1].a = "stash"

\* what follows the creation of the auto stash
C22_Order ==
    StashedAt # 0 =>
        LET i == StashedAt IN
        /\ Len(log) >= i + 2
        /\ log[i + 1].k = "write" /\ log[i + 1].a = "restore_files_from_head"
        /\ log[i + 2].k = "process" /\ log[i + 2].a = "merge --ff-only"
        /\ \A j \in 1..(i + 2) : log[j].a # "stash pop"
        /\ outcome \in Terminal =>
              /\ log[i + 3].k = "exit"
              /\ \E b, p \in (i + 4)..Len(log) :
                    /\ b < p
                    /\ log[b].k = "backup" /\ log[b].a = AutoStash
                    /\ log[p].k = "process" /\ log[p].a = "stash pop"
              /\ loc.stash = AutoStash /\ loc.stashIndex = 1

\* C22: MergeBranch auto-stash ordering.  The auto stash is created only with
\* silentFastForward set, analysis FASTFORWARD|NORMAL, unstaged changes and the
\* stash prompt accepted; then come create_stash, restore_files_from_head, git
\* merge and, whatever the exit code of the merge, git stash pop of that stash.
C22_AutoStash == []C22_Order /\ [][C22_StashStep]_vars

\* the merge failed and the auto stash was popped all the same
C22_Witness ==
    /\ StashedAt # 0 /\ outcome \in Terminal
    /\ \E i \in Events("exit") : log[i].a = "merge --ff-only" /\ log[i].x # 0
    /\ \E i \in Events("exit") : log[i].a = "stash pop"

\* C23: Backup before stash deletion.  Every call of git stash drop or git stash
\* pop comes after a backupStash of the stash it deletes; ApplyStash calls pop,
\* with Refs among the effects, if and only if the deletion was asked, and apply
\* otherwise.
C23_BackupBeforeDeletion ==
    /\ \A i \in Events("process") : log[i].a \in {"stash drop", "stash pop"} =>
          \E j \in Events("backup") : j < i /\ log[j].a = loc.stash /\ log[j].t = log[i].t
    /\ \A i \in Events("process") : log[i].t = "ApplyStash" =>
          /\ log[i].a = (IF loc.deleteAfterApply THEN "stash pop" ELSE "stash apply")
          /\ "Refs" \in log[i].e <=> loc.deleteAfterApply
          /\ "Workdir" \in log[i].e

C23_Witness ==
    /\ loc.op = "DropStash" /\ outcome = "completed"
    /\ Events("backup") # {}
    /\ loc.stash \notin {repo.stashes[k] : k \in DOMAIN repo.stashes}

\* the exits of the process of ApplyStash's flow
StashExits == {i \in Events("exit") : log[i].a \in {"stash pop", "stash apply"}}

\* C24: ApplyStash outcome.  After the process returns the index is refreshed in
\* the worker context and the flow returns to the UI context; it ends aborted,
\* with a message, if and only if the exit code is non-zero and the index has no
\* conflicts; otherwise it completes with a status; the final effects contain
\* Workdir in all cases.
C24_ApplyStashOutcome ==
    /\ \A j \in Made("call", "ApplyStash", "refresh_index") :
          log[j].c = "worker" /\ \E i \in StashExits : i < j
    /\ \A j \in Made("prompt", "ApplyStash", "showWarning") : log[j].c = "ui"
    /\ \A i \in StashExits : outcome \in Terminal =>
          /\ \E j \in Made("call", "ApplyStash", "refresh_index") : i < j
          /\ ctx = "ui"
          /\ outcome = "aborted" <=> (log[i].x # 0 /\ ~loc.anyConflicts)
          /\ outcome = "aborted" => abortMsg /\ "Stash could not be applied" \in Statuses
          /\ outcome # "aborted" =>
                /\ outcome = "completed"
                /\ IF log[i].x # 0 THEN "Stash applied, with conflicts" \in Statuses
                   ELSE IF loc.deleteAfterApply THEN "Stash applied and deleted" \in Statuses
                   ELSE "Stash applied" \in Statuses
          /\ "Workdir" \in result

C24_Witness ==
    /\ loc.op = "ApplyStash" /\ outcome = "aborted"
    /\ \E i \in StashExits : log[i].x # 0
    /\ Made("call", "ApplyStash", "refresh_index") # {}
    /\ "Workdir" \in result

Answered(p, c, i) ==
    \E j \in 1..(i - 2) :
        /\ log[j].k = "prompt" /\ log[j].a = p
        /\ log[j + 1].k = "answer" /\ log[j + 1].a = c

\* the git merge invocations of MergeBranch
Merges == {i \in Events("process") : log[i].t = "MergeBranch"}

\* the step in which MergeBranch invokes git merge
C26_MergeStep ==
    (loc.op = "MergeBranch" /\ Merges = {} /\ Merges' # {}) =>
        /\ ~loc.anyConflicts /\ ~loc.anyStagedFiles
        /\ ~repo.conflicts /\ ~repo.staged
        /\ loc.analysis \in {{"FASTFORWARD", "NORMAL"}, {"NORMAL"}}

C26_Mode ==
    \A i \in Merges :
        /\ log[i].a \in {"merge --no-ff", "merge --ff-only"}
        /\ log[i].a = "merge --ff-only" =>
              /\ loc.analysis = {"FASTFORWARD", "NORMAL"}
              /\ loc.silentFastForward \/ Answered("confirmFastForward", "ok", i)
        /\ loc.analysis = {"NORMAL"} =>
              /\ log[i].a = "merge --no-ff"
              /\ Answered("mayCauseConflicts", "ok", i)
        /\ (loc.analysis = {"FASTFORWARD", "NORMAL"} /\ log[i].a = "merge --no-ff") =>
              ~loc.silentFastForward /\ Answered("confirmFastForward", "action", i)
        /\ Cardinality(Merges) = 1

Created == Made("write", "NewBranchFromCommit", "create_branch_from_commit")

Tracked == Made("write", "NewBranchFromCommit", "edit_upstream_branch")

Switches == {i \in Events("enter") : log[i].t = "SwitchBranch"}

C27_Order ==
    /\ \A i \in Created :
          /\ log[i].c = "worker"
          /\ \E j \in 1..(i - 2) :
                /\ log[j].k = "prompt" /\ log[j].t = "NewBranchFromCommit" /\ log[j].a = "dialog"
                /\ log[j + 1].k = "answer" /\ log[j + 1].a = "ok"
          /\ loc.trackUpstream # "" => i + 1 \in Tracked
    /\ \A u \in Tracked : loc.trackUpstream # "" /\ u - 1 \in Created
    /\ Created # {} =>
          /\ \A s \in Switches :
                /\ loc.switchTo /\ ~loc.sbAsk
                /\ log[s].c = "ui"
                /\ \A i \in Created \cup Tracked : i < s
                /\ loc.nbName \in LocalBranches(repo) /\ repo.branches[loc.nbName] = loc.tip
          /\ Made("prompt", "SwitchBranch", "switch") = {}
          /\ \A i \in Events("process") :
                /\ loc.switchTo /\ log[i].a = "checkout" /\ "Head" \in log[i].e
                /\ \E s \in Switches : s < i
          /\ \A i \in DOMAIN stack : "Head" \in stack[i].effects => loc.switchTo
          /\ outcome \in Terminal =>
                /\ "Head" \in result <=> loc.switchTo
                /\ {"Refs", "Upstreams"} \subseteq result
                /\ ~loc.switchTo => outcome = "completed" /\ result = {"Refs", "Upstreams"}
                /\ loc.switchTo => Switches # {}

\* the step in which the switch subtask of NewBranchFromCommit ends without
\* completing leaves the new branch in place
C27_SwitchFails ==
    (Created # {} /\ Switches # {} /\ outcome = "running" /\ outcome' \in {"aborted", "failed"}) =>
        /\ loc.nbName \in LocalBranches(repo')
        /\ repo'.branches[loc.nbName] = loc.tip

\* C27: NewBranchFromCommit ordering.  After the dialog is accepted the flow
\* enters the worker context, creates the branch, sets the upstream if one was
\* ticked, and switches last, through a SwitchBranch subtask started in the UI
\* context that does not ask for confirmation; Head is in the effects and a
\* checkout is invoked only if 'switch' was ticked, otherwise the final effects
\* are exactly Refs|Upstreams with no process; if the subtask aborts or fails the
\* branch stays created.
C27_NewBranchOrdering == []C27_Order /\ [][C27_SwitchFails]_vars

C27_Witness ==
    /\ loc.op = "NewBranchFromCommit" /\ outcome = "aborted"
    /\ Created # {} /\ Switches # {}
    /\ loc.nbName \in LocalBranches(repo)
    /\ result = {"Refs", "Upstreams", "Head"}

\* the git checkout invocations of SwitchBranch
Checkouts == Made("process", "SwitchBranch", "checkout")

\* the step in which SwitchBranch invokes git checkout
C28_CheckoutStep ==
    (Checkouts = {} /\ Checkouts' # {}
        /\ repo.dangerous /\ repo.branches[loc.sbBranch] # repo.headCommit) =>
        Answered("detached", "ok", Len(log) + 1)

C28_Guard ==
    /\ \A i \in Events("prompt") \cup Events("answer") :
          log[i].t = "SwitchBranch" => log[i].e = {}
    /\ \A i \in Checkouts :
          /\ {"Refs", "Head"} \subseteq log[i].e
          /\ \A j \in 1..(i - 1) :
                (log[j].k = "prompt" /\ log[j].t = "SwitchBranch") =>
                    log[j + 1].k = "answer" /\ log[j + 1].a = "ok"
    /\ DeclinedWarning =>
          /\ outcome = "aborted"
          /\ Events("process") = {}
          /\ \A j \in DOMAIN done : done[j].task = "SwitchBranch" => done[j].own = {}
          /\ loc.op = "SwitchBranch" => result = {}

\* C28: SwitchBranch detached-HEAD guard.  With HEAD dangerously detached and the
\* target branch not at the HEAD commit, git checkout is invoked only after the
\* warning was accepted, also when the flow does not ask for confirmation;
\* declining ends the flow with no process and no effect of SwitchBranch;
\* Refs|Head is added only after every prompt of the flow was accepted.
C28_DetachedHeadGuard == []C28_Guard /\ [][C28_CheckoutStep]_vars

C28_Witness ==
    /\ ~loc.sbAsk
    /\ Checkouts # {}
    /\ Answered("detached", "ok", Len(log) + 1)

\* the outcomes of an operation that ran
Final == {"completed", "aborted", "failed"}

\* an outcome, once reached, is the only one
C29_OneOutcome == outcome \in Final => outcome' = outcome /\ stack' = <<>>

\* C29: Termination.  With every prompt eventually resolved, every process
\* eventually exiting, every context switch eventually granted and every backend
\* call returning or raising, every invoked operation, its subtasks and the
\* branch loops of RenameBranchFolder and DeleteBranchFolder included,
\* eventually reaches exactly one of the outcomes completed, aborted, failed.
C29_Termination ==
    /\ (outcome = "running") ~> (outcome \in Final /\ stack = <<>> /\ req = NoReq)
    /\ [][C29_OneOutcome]_vars

\* both branches of a folder were deleted by the loop, which then ended
C29_Witness ==
    /\ loc.op = "DeleteBranchFolder" /\ outcome = "completed"
    /\ Len(loc.fb) = 2 /\ loc.i > 2
    /\ stack = <<>>

====
